---- MODULE Spec2Model ----
(***************************************************************************)
(* One invocation of main.py: run_strategy(mode), with is_market_open,    *)
(* get_market_data and trigger_webhook.  The wall clock, the two GET      *)
(* responses and the webhook response are the inputs; every network call  *)
(* the run issues is appended to `calls`, every print to `log`.           *)
(*                                                                         *)
(* Numbers: prices are naturals; the SMA is the exact rational num/den;   *)
(* the factors 1.04, 0.99 and 0.97 are the percentages 104, 99 and 97, so *)
(* x >= sma * 1.04 is  x * den * 100 >= num * 104.                        *)
(***************************************************************************)
EXTENDS Integers, Sequences, FiniteSets, TLC

VARIABLES pc, mode, now, market_open, price, open_price, prev_close,
          history, sma200, post_args, payload, calls, log, outcome

vars == <<pc, mode, now, market_open, price, open_price, prev_close,
          history, sma200, post_args, payload, calls, log, outcome>>

----------------------------------------------------------------------------
(* JSON / Python values *)

Num(n) == [t |-> "num", v |-> n]
Null == [t |-> "null", v |-> 0]
NonNumeric == [t |-> "str", v |-> 0]
Unset == [t |-> "unset", v |-> 0]

IsNum(x) == x.t = "num"

(* float results: a rational, or NaN *)
Float(n, d) == [t |-> "float", num |-> n, den |-> d]
NaN == [t |-> "nan", num |-> 0, den |-> 1]

----------------------------------------------------------------------------
(* Program constants *)

SMA_WINDOW == 200
BUY_SMA_PCT == 104
BUY_DIP_PCT == 99
SELL_SMA_PCT == 97
OPEN_HOUR == 9
OPEN_MINUTE == 30
CLOSE_HOUR == 16
LAST_WEEKDAY == 4

(* Bounds of the input space *)

MaxOld == 2

----------------------------------------------------------------------------
(* Inputs: the wall clock in US/Eastern *)

Weekdays == 0..6
Hours == {8, 9, 10, 15, 16, 17}
Minutes == {0, 29, 30, 59}
Seconds == {0, 59}
Microseconds == {0, 1, 999999}

Times == [weekday : Weekdays, hour : Hours, minute : Minutes,
          second : Seconds, microsecond : Microseconds]

NoTime == [weekday |-> 0, hour |-> 0, minute |-> 0, second |-> 0, microsecond |-> 0]

(* Inputs: the quote response *)

LastValues == {Null, NonNumeric, Num(2424), Num(2425), Num(2574), Num(2575)}
OpenValues == {Null, Num(0), Num(2580)}
PrevCloseValues == {Null, NonNumeric, Num(2599), Num(2600), Num(2700)}

NoQuote == [last |-> Unset, open |-> Unset, prevclose |-> Unset]

QuoteResponses ==
    {[status |-> "http_error", parsed |-> FALSE, quote |-> NoQuote],
     [status |-> "ok", parsed |-> FALSE, quote |-> NoQuote]}
    \cup [status : {"ok"}, parsed : {TRUE},
          quote : [last : LastValues, open : OpenValues, prevclose : PrevCloseValues]]

(* Inputs: the history response; day is the series of 'close' values, oldest first *)

CloseValues == {Null, NonNumeric, Num(2475), Num(2500)}
RecentLens == {0, 1, SMA_WINDOW - 1, SMA_WINDOW}

Series(nOld, a, nNew, b) == [i \in 1..(nOld + nNew) |-> IF i <= nOld THEN a ELSE b]

HistorySeries ==
    {Series(nOld, a, nNew, b) :
        nOld \in 0..MaxOld, a \in CloseValues, nNew \in RecentLens, b \in CloseValues}

HistoryResponses ==
    {[status |-> "http_error", parsed |-> FALSE, day |-> <<>>],
     [status |-> "ok", parsed |-> FALSE, day |-> <<>>]}
    \cup [status : {"ok"}, parsed : {TRUE}, day : HistorySeries]

(* Inputs: what requests.post does *)

PostResults == {"ok", "http_error", "exception"}

----------------------------------------------------------------------------
(* is_market_open *)

Replace(t, h, m, s, us) ==
    [t EXCEPT !.hour = h, !.minute = m, !.second = s, !.microsecond = us]

(* datetime ordering of two times of the same date: field by field *)
DatetimeLE(a, b) ==
    \/ a.hour < b.hour
    \/ a.hour = b.hour /\ a.minute < b.minute
    \/ a.hour = b.hour /\ a.minute = b.minute /\ a.second < b.second
    \/ /\ a.hour = b.hour /\ a.minute = b.minute /\ a.second = b.second
       /\ a.microsecond <= b.microsecond

(* variant: the closing instant itself counted as closed *)
is_market_open_StrictClose(t) ==
    IF t.weekday > LAST_WEEKDAY
    THEN FALSE
    ELSE LET market_open_t == Replace(t, OPEN_HOUR, OPEN_MINUTE, 0, 0)
             market_close_t == Replace(t, CLOSE_HOUR, 0, 0, 0)
         IN  DatetimeLE(market_open_t, t) /\ DatetimeLE(t, market_close_t)
             /\ t # market_close_t

is_market_open(t) ==
    IF t.weekday > LAST_WEEKDAY
    THEN FALSE
    ELSE LET market_open_t == Replace(t, OPEN_HOUR, OPEN_MINUTE, 0, 0)
             market_close_t == Replace(t, CLOSE_HOUR, 0, 0, 0)
         IN  DatetimeLE(market_open_t, t) /\ DatetimeLE(t, market_close_t)

MarketClosedMessage(t) ==
    IF t.weekday > LAST_WEEKDAY THEN "Market Closed (Weekend)."
    ELSE "Market Closed (Outside Hours)."

----------------------------------------------------------------------------
(* get_market_data *)

(* variant: raise_for_status() and the key lookups left out *)
ResponseOK_Unchecked(r) == TRUE

ResponseOK(r) == r.status = "ok" /\ r.parsed

tail(s, n) == IF Len(s) <= n THEN s ELSE SubSeq(s, Len(s) - n + 1, Len(s))

(* the sum of s[lo..hi], by halves as numpy's pairwise summation *)
RECURSIVE Sum(_, _, _)
Sum(s, lo, hi) ==
    IF lo > hi THEN 0
    ELSE IF lo = hi THEN s[lo].v
    ELSE LET mid == (lo + hi) \div 2
         IN  Sum(s, lo, mid) + Sum(s, mid + 1, hi)

(* Series.mean(): NaN entries are skipped; NaN when nothing is left *)
Mean(s) ==
    LET nums == SelectSeq(s, IsNum)
    IN  IF Len(nums) = 0 THEN NaN ELSE Float(Sum(nums, 1, Len(nums)), Len(nums))

(* variant: .tail(200) left out *)
SMA200_WholeSeries(h) == Mean(h)

SMA200(h) == Mean(tail(h, SMA_WINDOW))

(* df['close'] raises KeyError on an empty frame; mean() raises TypeError on strings *)
SMARaises(h) ==
    \/ Len(h) = 0
    \/ \E i \in 1..Len(tail(h, SMA_WINDOW)) : tail(h, SMA_WINDOW)[i].t = "str"

----------------------------------------------------------------------------
(* run_strategy: the threshold rules *)

(* x >= f * pct/100, False when f is NaN *)
GE_Scaled(x, f, pct) == f.t = "float" /\ x.v * f.den * 100 >= f.num * pct
LT_Scaled(x, f, pct) == f.t = "float" /\ x.v * f.den * 100 < f.num * pct

(* variant: the trend filter strict *)
BuyCondition_Strict(p, pc_, sma) ==
    /\ sma.t = "float" /\ p.v * sma.den * 100 > sma.num * BUY_SMA_PCT
    /\ p.v * 100 <= pc_.v * BUY_DIP_PCT

BuyCondition(p, pc_, sma) ==
    /\ GE_Scaled(p, sma, BUY_SMA_PCT)
    /\ p.v * 100 <= pc_.v * BUY_DIP_PCT

(* variant: the stop inclusive *)
SellCondition_Inclusive(p, sma) ==
    sma.t = "float" /\ p.v * sma.den * 100 <= sma.num * SELL_SMA_PCT

SellCondition(p, sma) == LT_Scaled(p, sma, SELL_SMA_PCT)

----------------------------------------------------------------------------
(* trigger_webhook *)

Truthy(x) == (x.t = "num" /\ x.v # 0) \/ x.t = "str"

NoPostArgs == [url |-> "none", signal_type |-> "none", price |-> Unset,
               sma |-> NaN, open_p |-> Null]

NoPayload == [ticker |-> "none"]

(* variant: open_p tested against None instead of for truth *)
Payload_OpenNotNone(a) ==
    IF a.open_p # Null
    THEN [ticker |-> "QQQ", signal |-> a.signal_type, price |-> a.price,
          sma200 |-> a.sma, timestamp |-> "now", open_price |-> a.open_p]
    ELSE [ticker |-> "QQQ", signal |-> a.signal_type, price |-> a.price,
          sma200 |-> a.sma, timestamp |-> "now"]

Payload(a) ==
    LET base == [ticker |-> "QQQ", signal |-> a.signal_type, price |-> a.price,
                 sma200 |-> a.sma, timestamp |-> "now"]
    IN  IF Truthy(a.open_p)
        THEN [ticker |-> "QQQ", signal |-> a.signal_type, price |-> a.price,
              sma200 |-> a.sma, timestamp |-> "now", open_price |-> a.open_p]
        ELSE base

Get(endpoint) == [method |-> "GET", target |-> endpoint]
Post(url) == [method |-> "POST", target |-> url]

----------------------------------------------------------------------------
(* State machine *)

Init ==
    /\ pc = "start"
    /\ mode \in {"buy", "sell"}
    /\ now = NoTime
    /\ market_open = FALSE
    /\ price = Unset
    /\ open_price = Unset
    /\ prev_close = Unset
    /\ history = <<>>
    /\ sma200 = NaN
    /\ post_args = NoPostArgs
    /\ payload = NoPayload
    /\ calls = <<>>
    /\ log = <<>>
    /\ outcome = "running"

(* run_strategy line 102 calls is_market_open() *)
IsMarketOpen ==
    /\ pc = "start"
    /\ \E t \in Times :
        /\ now' = t
        /\ market_open' = is_market_open(t)
        /\ log' = IF is_market_open(t) THEN log ELSE Append(log, MarketClosedMessage(t))
    /\ pc' = "gate"
    /\ UNCHANGED <<mode, price, open_price, prev_close, history, sma200,
                   post_args, payload, calls, outcome>>

(* variant: the early return left out *)
RunStrategyGate_NoReturn ==
    /\ pc = "gate"
    /\ now' = NoTime
    /\ pc' = "quote"
    /\ outcome' = outcome
    /\ log' = Append(log, "--- Running Logic ---")
    /\ UNCHANGED <<mode, market_open, price, open_price, prev_close, history,
                   sma200, post_args, payload, calls>>

(* if not is_market_open(): return *)
RunStrategyGate ==
    /\ pc = "gate"
    /\ now' = NoTime
    /\ IF ~market_open
       THEN /\ pc' = "done"
            /\ outcome' = "market_closed"
            /\ log' = log
       ELSE /\ pc' = "quote"
            /\ outcome' = outcome
            /\ log' = Append(log, "--- Running Logic ---")
    /\ UNCHANGED <<mode, market_open, price, open_price, prev_close, history,
                   sma200, post_args, payload, calls>>

(* get_market_data lines 46-56; a raise lands in run_strategy's except *)
GetQuote ==
    /\ pc = "quote"
    /\ calls' = Append(calls, Get("quotes"))
    /\ \E r \in QuoteResponses :
        IF ResponseOK(r)
        THEN /\ price' = r.quote.last
             /\ open_price' = r.quote.open
             /\ prev_close' = r.quote.prevclose
             /\ pc' = "history"
             /\ UNCHANGED <<log, outcome>>
        ELSE /\ log' = Append(log, "Error fetching data")
             /\ pc' = "done"
             /\ outcome' = "fetch_error"
             /\ UNCHANGED <<price, open_price, prev_close>>
    /\ UNCHANGED <<mode, now, market_open, history, sma200, post_args, payload>>

(* get_market_data lines 59-69 *)
GetHistory ==
    /\ pc = "history"
    /\ calls' = Append(calls, Get("history"))
    /\ \E r \in HistoryResponses :
        IF ResponseOK(r)
        THEN /\ history' = r.day
             /\ pc' = "sma"
             /\ UNCHANGED <<log, outcome>>
        ELSE /\ log' = Append(log, "Error fetching data")
             /\ pc' = "done"
             /\ outcome' = "fetch_error"
             /\ UNCHANGED history
    /\ UNCHANGED <<mode, now, market_open, price, open_price, prev_close, sma200,
                   post_args, payload>>

(* get_market_data lines 72-77 *)
ComputeSMA ==
    /\ pc = "sma"
    /\ IF SMARaises(history)
       THEN /\ log' = Append(log, "Error fetching data")
            /\ pc' = "done"
            /\ outcome' = "fetch_error"
            /\ history' = <<>>
            /\ UNCHANGED sma200
       ELSE /\ sma200' = SMA200(history)
            /\ pc' = "got_data"
            /\ UNCHANGED <<log, outcome, history>>
    /\ UNCHANGED <<mode, now, market_open, price, open_price, prev_close,
                   post_args, payload, calls>>

(* an exception no handler catches ends run_strategy *)
Raise(lines) ==
    /\ pc' = "done"
    /\ outcome' = "uncaught_exception"
    /\ log' = log \o lines
    /\ UNCHANGED post_args

Signal(url, signal_type, open_p, lines) ==
    /\ pc' = "post"
    /\ post_args' = [url |-> url, signal_type |-> signal_type, price |-> price,
                     sma |-> sma200, open_p |-> open_p]
    /\ log' = log \o lines
    /\ UNCHANGED outcome

NoSignal(lines) ==
    /\ pc' = "done"
    /\ outcome' = "no_signal"
    /\ log' = log \o lines
    /\ UNCHANGED post_args

(* run_strategy lines 116-130 *)
EvaluateBuy ==
    IF ~IsNum(prev_close)
    THEN Raise(<<"Price:">>)
    ELSE IF ~IsNum(price)
    THEN Raise(<<"Price:", "Buy Criteria:">>)
    ELSE IF BuyCondition(price, prev_close, sma200)
    THEN Signal("OA_WEBHOOK_BUY", "BUY", open_price,
                <<"Price:", "Buy Criteria:", ">>> BUY SIGNAL TRIGGERED <<<">>)
    ELSE NoSignal(<<"Price:", "Buy Criteria:", "No Buy Signal.">>)

(* run_strategy lines 133-142 *)
EvaluateSell ==
    IF ~IsNum(price)
    THEN Raise(<<"Price:", "Sell Criteria:">>)
    ELSE IF SellCondition(price, sma200)
    THEN Signal("OA_WEBHOOK_SELL", "SELL", Null,
                <<"Price:", "Sell Criteria:", ">>> SELL SIGNAL TRIGGERED <<<">>)
    ELSE NoSignal(<<"Price:", "Sell Criteria:", "No Sell Signal.">>)

(* variant: the sell rule applied whatever the mode *)
Evaluate_IgnoreMode ==
    /\ pc = "got_data"
    /\ history' = <<>>
    /\ EvaluateSell
    /\ UNCHANGED <<mode, now, market_open, price, open_price, prev_close, sma200,
                   payload, calls>>

(* run_strategy lines 113-142, after get_market_data returned *)
Evaluate ==
    /\ pc = "got_data"
    /\ history' = <<>>
    /\ IF mode = "buy" THEN EvaluateBuy ELSE EvaluateSell
    /\ UNCHANGED <<mode, now, market_open, price, open_price, prev_close, sma200,
                   payload, calls>>

(* variant: a failed POST sent a second time *)
TriggerWebhook_Retry ==
    /\ pc = "post"
    /\ payload' = Payload(post_args)
    /\ \E r \in PostResults :
        IF r = "ok"
        THEN /\ log' = log \o <<"Sending Payload", "Webhook Sent">>
             /\ outcome' = "sent"
             /\ calls' = Append(calls, Post(post_args.url))
        ELSE /\ log' = log \o <<"Sending Payload", "Failed to send webhook">>
             /\ outcome' = "post_failed"
             /\ calls' = calls \o <<Post(post_args.url), Post(post_args.url)>>
    /\ pc' = "done"
    /\ UNCHANGED <<mode, now, market_open, price, open_price, prev_close, history,
                   sma200, post_args>>

(* trigger_webhook *)
TriggerWebhook ==
    /\ pc = "post"
    /\ payload' = Payload(post_args)
    /\ calls' = Append(calls, Post(post_args.url))
    /\ \E r \in PostResults :
        IF r = "ok"
        THEN /\ log' = log \o <<"Sending Payload", "Webhook Sent">>
             /\ outcome' = "sent"
        ELSE /\ log' = log \o <<"Sending Payload", "Failed to send webhook">>
             /\ outcome' = "post_failed"
    /\ pc' = "done"
    /\ UNCHANGED <<mode, now, market_open, price, open_price, prev_close, history,
                   sma200, post_args>>

Next ==
    \/ IsMarketOpen
    \/ RunStrategyGate
    \/ GetQuote
    \/ GetHistory
    \/ ComputeSMA
    \/ Evaluate
    \/ TriggerWebhook

Spec == Init /\ [][Next]_vars

----------------------------------------------------------------------------
(* Properties *)

Posts == {i \in 1..Len(calls) : calls[i].method = "POST"}

IsExactly(f, n) == f.t = "float" /\ f.num = n * f.den

SecondsOfDay(t) == (t.hour * 60 + t.minute) * 60 + t.second

(* C1: when is_market_open returned False the run issues no GET and no POST
   and ends as a silent return. *)
C1_NoCallsWhenClosed ==
    (pc # "start" /\ ~market_open) =>
        /\ calls = <<>>
        /\ pc \in {"gate", "done"}
        /\ pc = "done" => outcome = "market_closed"

C1_Witness == pc = "done" /\ ~market_open /\ outcome = "market_closed"

(* C2: a buy-mode run inside the window whose fetch succeeded POSTs to the buy
   webhook iff price >= SMA200 * 1.04 and price <= prevclose * 0.99, both
   inclusive; otherwise it POSTs nothing. *)
C2_BothHold ==
    /\ IsNum(price) /\ IsNum(prev_close) /\ sma200.t = "float"
    /\ 100 * price.v * sma200.den >= 104 * sma200.num
    /\ 100 * price.v <= 99 * prev_close.v

C2_BuyFiresIff ==
    (pc = "done" /\ mode = "buy" /\ market_open /\ outcome # "fetch_error") =>
        IF C2_BothHold
        THEN calls = <<Get("quotes"), Get("history"), Post("OA_WEBHOOK_BUY")>>
        ELSE Posts = {}

C2_Witness ==
    /\ pc = "done" /\ mode = "buy"
    /\ price = Num(2574) /\ prev_close = Num(2600) /\ IsExactly(sma200, 2475)
    /\ Posts # {}

(* C3: a sell-mode run inside the window whose fetch succeeded POSTs to the
   sell webhook iff price < SMA200 * 0.97; price equal to the threshold does
   not fire. *)
C3_Below ==
    IsNum(price) /\ sma200.t = "float" /\ 100 * price.v * sma200.den < 97 * sma200.num

C3_SellFiresIff ==
    (pc = "done" /\ mode = "sell" /\ market_open /\ outcome # "fetch_error") =>
        IF C3_Below
        THEN calls = <<Get("quotes"), Get("history"), Post("OA_WEBHOOK_SELL")>>
        ELSE Posts = {}

C3_Witness ==
    /\ pc = "done" /\ mode = "sell"
    /\ price = Num(2425) /\ IsExactly(sma200, 2500)
    /\ Posts = {} /\ outcome = "no_signal"

(* C4: the SMA200 get_market_data returns is the arithmetic mean of the last
   200 closing prices of the series as returned (of all of them when there
   are fewer); older entries do not affect it. *)
RECURSIVE C4_Run(_, _, _)
C4_Run(s, lo, hi) == IF lo > hi THEN 0 ELSE s[lo].v + C4_Run(s, lo + 1, hi)

(* s[lo] + ... + s[hi], added up left to right in runs of twenty *)
RECURSIVE C4_Total(_, _, _)
C4_Total(s, lo, hi) ==
    IF lo > hi THEN 0
    ELSE IF hi - lo < 20 THEN C4_Run(s, lo, hi)
    ELSE C4_Run(s, lo, lo + 19) + C4_Total(s, lo + 20, hi)

C4_SMAIsMeanOfLast200 ==
    pc = "got_data" =>
        LET n == Len(history)
            k == IF n > 200 THEN 200 ELSE n
        IN  (\A i \in (n - k + 1)..n : IsNum(history[i])) =>
                /\ sma200.t = "float"
                /\ sma200.num * k = C4_Total(history, n - k + 1, n) * sma200.den

C4_Witness ==
    /\ pc = "got_data" /\ Len(history) > 200
    /\ IsNum(history[1]) /\ IsNum(history[Len(history)])
    /\ history[1] # history[Len(history)]
    /\ IsExactly(sma200, history[Len(history)].v)

(* C5: no exception escapes run_strategy, whatever fails or is malformed in
   the quote, the history or the webhook POST. *)
C5_NoExceptionEscapes == outcome # "uncaught_exception"

(* C6: a run attempts at most one webhook POST; a failed POST is logged and is
   the last network call of the run. *)
C6_AtMostOnePost ==
    /\ Cardinality(Posts) <= 1
    /\ \A i \in Posts : i = Len(calls)
    /\ outcome = "post_failed" =>
        /\ pc = "done"
        /\ Posts # {}
        /\ log[Len(log)] = "Failed to send webhook"

C6_Witness == pc = "done" /\ outcome = "post_failed" /\ Cardinality(Posts) = 1

(* C7: a buy-mode run only ever POSTs to the buy webhook with signal BUY and a
   sell-mode run only to the sell webhook with signal SELL; the other mode's
   rule is never applied. *)
C7_EndpointByMode ==
    \A i \in Posts :
        /\ "signal" \in DOMAIN payload
        /\ mode = "buy" => calls[i].target = "OA_WEBHOOK_BUY" /\ payload.signal = "BUY"
        /\ mode = "sell" => calls[i].target = "OA_WEBHOOK_SELL" /\ payload.signal = "SELL"

C7_Witness ==
    /\ pc = "done" /\ mode = "buy" /\ outcome = "no_signal"
    /\ C3_Below
    /\ Posts = {}

(* C8: is_market_open returns True iff the Eastern time is on Monday..Friday
   and its time of day is within 09:30:00 .. 16:00:00, endpoints included. *)
C8_InWindow(t) ==
    /\ t.weekday \in 0..4
    /\ SecondsOfDay(t) >= 9 * 3600 + 30 * 60
    /\ \/ SecondsOfDay(t) < 16 * 3600
       \/ SecondsOfDay(t) = 16 * 3600 /\ t.microsecond = 0

C8_MarketOpenIff == pc = "gate" => (market_open <=> C8_InWindow(now))

C8_Witness ==
    /\ pc = "gate" /\ market_open
    /\ now = [weekday |-> 4, hour |-> 16, minute |-> 0, second |-> 0, microsecond |-> 0]

(* C9: the calls of a run are a prefix of quote GET, history GET, POST; the
   history GET follows a quote that was fetched and parsed, the POST follows
   both GETs and the SMA; a failed fetch ends the run with no later call. *)
C9_StepsInOrder ==
    /\ \A i \in 1..Len(calls) :
        /\ i = 1 => calls[i] = Get("quotes")
        /\ i = 2 => calls[i] = Get("history") /\ price # Unset
        /\ i = 3 => calls[i].method = "POST" /\ outcome # "fetch_error"
                    /\ post_args.sma = sma200
        /\ i <= 3
    /\ (outcome = "fetch_error" /\ price = Unset) => calls = <<Get("quotes")>>
    /\ outcome = "fetch_error" => Posts = {} /\ pc = "done"

C9_Witness == pc = "done" /\ outcome = "fetch_error" /\ calls = <<Get("quotes")>>

(* C10: every payload carries ticker, signal, price, sma200 and timestamp, with
   price and sma200 the compared values; open_price is present iff the signal
   is BUY and the fetched open is neither null nor zero. *)
C10_PayloadFields ==
    Posts # {} =>
        /\ {"ticker", "signal", "price", "sma200", "timestamp"} \subseteq DOMAIN payload
        /\ payload.price = price
        /\ payload.sma200 = sma200
        /\ "open_price" \in DOMAIN payload <=>
              (payload.signal = "BUY" /\ open_price # Null /\ open_price # Num(0))
        /\ "open_price" \in DOMAIN payload => payload.open_price = open_price

C10_Witness ==
    /\ Posts # {} /\ payload.signal = "BUY" /\ open_price = Num(0)
    /\ "open_price" \notin DOMAIN payload

====
